---- MODULE Spec2Model ----
(***************************************************************************)
(* Model of the rule engine of app.py: the technology classifier           *)
(* (detect_technologies) and the setup-plan synthesizer                    *)
(* (generate_setup_steps with its per-technology generators and the        *)
(* run-command resolver).                                                  *)
(*                                                                         *)
(* Representation.  A Python str that the code inspects character by       *)
(* character (a file name, a detection pattern) is a sequence of           *)
(* one-character strings, so that lower(), ' '.join and the substring      *)
(* operator `in` are computed as Python computes them.  A text that the    *)
(* code only builds and hands on (a title, a command, a note) is a tuple   *)
(* of pieces: the literal fragments and interpolated values of the         *)
(* f-string, in order; a plain literal is a one-piece tuple.  The leading  *)
(* emoji of the step titles is left out (the module is ASCII); the rest    *)
(* of each title is the source's.                                          *)
(***************************************************************************)
EXTENDS Naturals, Integers, Sequences, FiniteSets, TLC

VARIABLES
    owner,       \* main(): owner, from the URL
    repo,        \* main(): repo, from the URL
    contents,    \* data['contents']: the root listing, a list of entries
    repo_data,   \* data['repo_data']: the repository metadata
    tech_stack,  \* the list of tags (detect_technologies' result)
    steps,       \* the plan (generate_setup_steps' result)
    pc           \* position in main(): "start", "detected", "done"

vars == <<owner, repo, contents, repo_data, tech_stack, steps, pc>>

(***************************************************************************)
(* Bounds of the model.                                                    *)
(***************************************************************************)
\* At most this many entries in a root listing.
MaxFiles == 2

(***************************************************************************)
(* Python str and list operations.                                         *)
(***************************************************************************)
\* Python's None (repo_data['language'] of a repository without one).
None == "<None>"

UpperCase ==
    <<"A","B","C","D","E","F","G","H","I","J","K","L","M",
      "N","O","P","Q","R","S","T","U","V","W","X","Y","Z">>

LowerCase ==
    <<"a","b","c","d","e","f","g","h","i","j","k","l","m",
      "n","o","p","q","r","s","t","u","v","w","x","y","z">>

\* Each capital letter's lowercase letter.
ToLower ==
    [c \in {UpperCase[i] : i \in 1..Len(UpperCase)} |->
        LowerCase[CHOOSE i \in 1..Len(UpperCase) : UpperCase[i] = c]]

\* str.lower() of one character.
LowerChar(c) == IF c \in DOMAIN ToLower THEN ToLower[c] ELSE c

\* str.lower()
lower(s) == [i \in 1..Len(s) |-> LowerChar(s[i])]

\* sub in s, for two str: sub occurs in s as a contiguous substring.
StrIn(sub, s) ==
    \E i \in 0..(Len(s) - Len(sub)) : SubSeq(s, i + 1, i + Len(sub)) = sub

\* x in lst, for a list: some element equals x.
ListIn(x, lst) == \E i \in 1..Len(lst) : lst[i] = x

\* sep.join(lst)
RECURSIVE join(_, _)
join(sep, lst) ==
    IF Len(lst) = 0 THEN <<>>
    ELSE IF Len(lst) = 1 THEN lst[1]
    ELSE lst[1] \o sep \o join(sep, Tail(lst))

\* The elements of a list.
Elems(lst) == {lst[i] : i \in 1..Len(lst)}

\* list(a_set): the elements of the set, each once, in the set's iteration
\* order.  That order is decided by the hashes of the elements (str hashes
\* are salted per interpreter run), so every order is a possible outcome.
RECURSIVE ListsOf(_)
ListsOf(S) ==
    IF S = {} THEN {<<>>}
    ELSE UNION {{<<x>> \o l : l \in ListsOf(S \ {x})} : x \in S}

\* A one-piece text: a plain string literal.
T(s) == <<s>>

(***************************************************************************)
(* The str literals the code compares file names with.                     *)
(***************************************************************************)
s_space == <<" ">>
s_requirements_txt == <<"r","e","q","u","i","r","e","m","e","n","t","s",".","t","x","t">>
s_setup_py == <<"s","e","t","u","p",".","p","y">>
s_pyproject_toml == <<"p","y","p","r","o","j","e","c","t",".","t","o","m","l">>
s_pipfile == <<"p","i","p","f","i","l","e">>
s_yarn_lock == <<"y","a","r","n",".","l","o","c","k">>
s_package_lock_json == <<"p","a","c","k","a","g","e","-","l","o","c","k",".","j","s","o","n">>
s_pom_xml == <<"p","o","m",".","x","m","l">>
s_gradle == <<"g","r","a","d","l","e">>
s_app_py == <<"a","p","p",".","p","y">>
s_main_py == <<"m","a","i","n",".","p","y">>
s_dot_env == <<".","e","n","v">>
s_config == <<"c","o","n","f","i","g">>

(***************************************************************************)
(* detect_technologies                                                     *)
(***************************************************************************)
\* tech_patterns, in the dict's insertion order.
tech_patterns ==
  <<
    [tech |-> "Python", patterns |-> <<
       <<"r","e","q","u","i","r","e","m","e","n","t","s",".","t","x","t">>,
       <<"s","e","t","u","p",".","p","y">>,
       <<"p","y","p","r","o","j","e","c","t",".","t","o","m","l">>,
       <<"p","i","p","f","i","l","e">>,
       <<"c","o","n","d","a",".","y","m","l">>,
       <<"e","n","v","i","r","o","n","m","e","n","t",".","y","m","l">>
    >>],
    [tech |-> "Node.js", patterns |-> <<
       <<"p","a","c","k","a","g","e",".","j","s","o","n">>,
       <<"p","a","c","k","a","g","e","-","l","o","c","k",".","j","s","o","n">>,
       <<"y","a","r","n",".","l","o","c","k">>
    >>],
    [tech |-> "React", patterns |-> <<
       <<"p","a","c","k","a","g","e",".","j","s","o","n">>
    >>],
    [tech |-> "Django", patterns |-> <<
       <<"m","a","n","a","g","e",".","p","y">>,
       <<"d","j","a","n","g","o">>
    >>],
    [tech |-> "Flask", patterns |-> <<
       <<"a","p","p",".","p","y">>,
       <<"f","l","a","s","k">>
    >>],
    [tech |-> "FastAPI", patterns |-> <<
       <<"f","a","s","t","a","p","i">>,
       <<"u","v","i","c","o","r","n">>
    >>],
    [tech |-> "Streamlit", patterns |-> <<
       <<"s","t","r","e","a","m","l","i","t">>,
       <<".","s","t","r","e","a","m","l","i","t">>
    >>],
    [tech |-> "Docker", patterns |-> <<
       <<"d","o","c","k","e","r","f","i","l","e">>,
       <<"d","o","c","k","e","r","-","c","o","m","p","o","s","e",".","y","m","l">>,
       <<"d","o","c","k","e","r","-","c","o","m","p","o","s","e",".","y","a","m","l">>
    >>],
    [tech |-> "Java", patterns |-> <<
       <<"p","o","m",".","x","m","l">>,
       <<"b","u","i","l","d",".","g","r","a","d","l","e">>,
       <<"g","r","a","d","l","e",".","p","r","o","p","e","r","t","i","e","s">>
    >>],
    [tech |-> "Go", patterns |-> <<
       <<"g","o",".","m","o","d">>,
       <<"g","o",".","s","u","m">>
    >>],
    [tech |-> "Rust", patterns |-> <<
       <<"c","a","r","g","o",".","t","o","m","l">>,
       <<"c","a","r","g","o",".","l","o","c","k">>
    >>],
    [tech |-> "Ruby", patterns |-> <<
       <<"g","e","m","f","i","l","e">>,
       <<"g","e","m","f","i","l","e",".","l","o","c","k">>
    >>],
    [tech |-> "PHP", patterns |-> <<
       <<"c","o","m","p","o","s","e","r",".","j","s","o","n">>,
       <<"c","o","m","p","o","s","e","r",".","l","o","c","k">>
    >>],
    [tech |-> "C++", patterns |-> <<
       <<"m","a","k","e","f","i","l","e">>,
       <<"c","m","a","k","e">>,
       <<"c","m","a","k","e","l","i","s","t","s",".","t","x","t">>
    >>],
    [tech |-> "HTML/CSS/JS", patterns |-> <<
       <<"i","n","d","e","x",".","h","t","m","l">>,
       <<"s","t","y","l","e",".","c","s","s">>,
       <<"s","c","r","i","p","t",".","j","s">>
    >>],
    [tech |-> "Vue.js", patterns |-> <<
       <<"v","u","e",".","c","o","n","f","i","g",".","j","s">>,
       <<"n","u","x","t",".","c","o","n","f","i","g",".","j","s">>
    >>],
    [tech |-> "Angular", patterns |-> <<
       <<"a","n","g","u","l","a","r",".","j","s","o","n">>,
       <<"n","g">>
    >>],
    [tech |-> "Next.js", patterns |-> <<
       <<"n","e","x","t",".","c","o","n","f","i","g",".","j","s">>
    >>]
  >>

\* files = [item['name'].lower() for item in contents if item['type'] == 'file']
RECURSIVE FileNames(_)
FileNames(cs) ==
    IF Len(cs) = 0 THEN <<>>
    ELSE IF cs[1].type = "file"
         THEN <<lower(cs[1].name)>> \o FileNames(Tail(cs))
         ELSE FileNames(Tail(cs))

\* Mutant of AnyPatternIn: a pattern must be a file's whole name.
AnyPatternIn_ExactName(patterns, files) ==
    \E i \in 1..Len(patterns) : ListIn(patterns[i], files)

\* any(pattern in ' '.join(files) for pattern in patterns)
AnyPatternIn(patterns, files) ==
    LET joined == join(s_space, files)
    IN  \E i \in 1..Len(patterns) : StrIn(patterns[i], joined)

\* The set tech_stack as detect_technologies has built it before returning.
DetectedSet(cs, rd) ==
    LET files == FileNames(cs)
        fromLanguage == IF rd.language # None THEN {rd.language} ELSE {}
        fromFiles == {tech_patterns[i].tech : i \in
                        {j \in 1..Len(tech_patterns) :
                            AnyPatternIn(tech_patterns[j].patterns, files)}}
    IN  fromLanguage \cup fromFiles

\* Mutant of detect_technologies: tech_stack kept as a list, so a language
\* that is also a matched catalog tag is returned twice.
detect_technologies_NoDedup(cs, rd) ==
    LET files == FileNames(cs)
        fromLanguage == IF rd.language # None THEN <<rd.language>> ELSE <<>>
        fromFiles ==
            SelectSeq(tech_patterns,
                      LAMBDA e : AnyPatternIn(e.patterns, files))
    IN  {fromLanguage \o [i \in 1..Len(fromFiles) |-> fromFiles[i].tech]}

\* The values detect_technologies can return: list(tech_stack).
detect_technologies(cs, rd) == ListsOf(DetectedSet(cs, rd))

(***************************************************************************)
(* The step generators.  A step is a record of title, description,         *)
(* commands and notes.                                                     *)
(***************************************************************************)
\* Mutant of CloneStep: the change-directory command forgotten.
CloneStep_NoCd(o, r) ==
    [title       |-> T("Clone the Repository"),
     description |-> T("Download the repository to your local machine"),
     commands    |-> << <<"git clone https://github.com/", o, "/", r, ".git">> >>,
     notes       |-> <<T("Make sure you have Git installed on your system")>>]

\* Step 1 of generate_setup_steps: the Clone step.
CloneStep(o, r) ==
    [title       |-> T("Clone the Repository"),
     description |-> T("Download the repository to your local machine"),
     commands    |-> << <<"git clone https://github.com/", o, "/", r, ".git">>,
                        <<"cd ", r>> >>,
     notes       |-> <<T("Make sure you have Git installed on your system")>>]

\* generate_python_steps: the virtual-environment step.
PythonEnvStep ==
    [title       |-> T("Set up Python Environment"),
     description |-> T("Create and activate a virtual environment"),
     commands    |-> <<T("python -m venv venv"),
                       T("# On Windows:"),
                       T("venv\\Scripts\\activate"),
                       T("# On macOS/Linux:"),
                       T("source venv/bin/activate")>>,
     notes       |-> <<T("Python 3.7+ recommended"),
                       T("Virtual environment helps avoid dependency conflicts")>>]

\* Mutant of install_commands: setup.py tested before requirements.txt.
install_commands_SetupFirst(files) ==
    IF ListIn(s_setup_py, files)
    THEN <<T("pip install -e .")>>
    ELSE IF ListIn(s_requirements_txt, files)
    THEN <<T("pip install -r requirements.txt")>>
    ELSE IF ListIn(s_pyproject_toml, files)
    THEN <<T("pip install -e .")>>
    ELSE IF ListIn(s_pipfile, files)
    THEN <<T("pip install pipenv"), T("pipenv install")>>
    ELSE <<T("# Check for any Python dependencies and install manually")>>

\* generate_python_steps: install_commands.
install_commands(files) ==
    IF ListIn(s_requirements_txt, files)
    THEN <<T("pip install -r requirements.txt")>>
    ELSE IF ListIn(s_setup_py, files)
    THEN <<T("pip install -e .")>>
    ELSE IF ListIn(s_pyproject_toml, files)
    THEN <<T("pip install -e .")>>
    ELSE IF ListIn(s_pipfile, files)
    THEN <<T("pip install pipenv"), T("pipenv install")>>
    ELSE <<T("# Check for any Python dependencies and install manually")>>

generate_python_steps(o, r, cs) ==
    LET files == FileNames(cs)
    IN  <<PythonEnvStep,
          [title       |-> T("Install Dependencies"),
           description |-> T("Install required Python packages"),
           commands    |-> install_commands(files),
           notes       |-> <<T("Dependencies are listed in requirements.txt or similar files")>>]>>

\* generate_node_steps: package_manager.
package_manager(files) ==
    IF ListIn(s_yarn_lock, files) THEN "yarn"
    ELSE IF ListIn(s_package_lock_json, files) THEN "npm"
    ELSE "npm"

\* generate_node_steps: install_cmd.
install_cmd(files) ==
    IF ListIn(s_yarn_lock, files) THEN "yarn install"
    ELSE IF ListIn(s_package_lock_json, files) THEN "npm install"
    ELSE "npm install"

generate_node_steps(o, r, cs) ==
    LET files == FileNames(cs)
    IN  <<[title       |-> T("Install Node.js Dependencies"),
           description |-> <<"Install packages using ", package_manager(files)>>,
           commands    |-> <<T(install_cmd(files))>>,
           notes       |-> <<T("Make sure you have Node.js installed (version 14+ recommended)"),
                             <<"This project uses ", package_manager(files),
                               " as package manager">> >>]>>

generate_docker_steps ==
    <<[title       |-> T("Docker Setup (Alternative)"),
       description |-> T("Run the application using Docker"),
       commands    |-> <<T("docker build -t repo-app ."),
                         T("docker run -p 8080:8080 repo-app")>>,
       notes       |-> <<T("Make sure Docker is installed and running"),
                         T("Check Dockerfile for specific port configurations")>>]>>

MavenStep ==
    [title       |-> T("Java Maven Setup"),
     description |-> T("Build and run Java application with Maven"),
     commands    |-> <<T("mvn clean install"), T("mvn spring-boot:run")>>,
     notes       |-> <<T("Make sure Java 8+ and Maven are installed")>>]

GradleStep ==
    [title       |-> T("Java Gradle Setup"),
     description |-> T("Build and run Java application with Gradle"),
     commands    |-> <<T("./gradlew build"), T("./gradlew run")>>,
     notes       |-> <<T("Make sure Java 8+ is installed"),
                       T("Gradle wrapper is included")>>]

\* Mutant of generate_java_steps: the gradle test before the pom.xml test.
generate_java_steps_GradleFirst(cs) ==
    LET files == FileNames(cs)
    IN  IF \E i \in 1..Len(files) : StrIn(s_gradle, files[i])
        THEN <<GradleStep>>
        ELSE IF ListIn(s_pom_xml, files) THEN <<MavenStep>>
        ELSE <<>>

generate_java_steps(cs) ==
    LET files == FileNames(cs)
    IN  IF ListIn(s_pom_xml, files) THEN <<MavenStep>>
        ELSE IF \E i \in 1..Len(files) : StrIn(s_gradle, files[i])
        THEN <<GradleStep>>
        ELSE <<>>

\* Mutant of run_commands: the Python branch prefers app.py to main.py, as
\* the Streamlit and Flask branches do.
run_commands_AppFirst(ts, files) ==
    IF ListIn("Streamlit", ts) THEN
        IF ListIn(s_app_py, files) THEN <<T("streamlit run app.py")>>
        ELSE IF ListIn(s_main_py, files) THEN <<T("streamlit run main.py")>>
        ELSE <<T("streamlit run <main_file>.py")>>
    ELSE IF ListIn("Flask", ts) THEN
        IF ListIn(s_app_py, files)
        THEN <<T("export FLASK_APP=app.py"), T("flask run")>>
        ELSE IF ListIn(s_main_py, files)
        THEN <<T("export FLASK_APP=main.py"), T("flask run")>>
        ELSE <<T("python app.py")>>
    ELSE IF ListIn("Django", ts) THEN
        <<T("python manage.py migrate"), T("python manage.py runserver")>>
    ELSE IF ListIn("FastAPI", ts) THEN
        IF ListIn(s_main_py, files) THEN <<T("uvicorn main:app --reload")>>
        ELSE <<T("uvicorn app:app --reload")>>
    ELSE IF ListIn("Node.js", ts) THEN
        <<T("npm start")>>
            \o (IF ListIn("React", ts) THEN <<T("# Or: npm run dev")>> ELSE <<>>)
    ELSE IF ListIn("Python", ts) THEN
        IF ListIn(s_app_py, files) THEN <<T("python app.py")>>
        ELSE IF ListIn(s_main_py, files) THEN <<T("python main.py")>>
        ELSE <<T("python <main_file>.py")>>
    ELSE <<>>

\* Mutant of run_commands: the Flask branch tested before the Streamlit one.
run_commands_FlaskFirst(ts, files) ==
    IF ListIn("Flask", ts) THEN
        IF ListIn(s_app_py, files)
        THEN <<T("export FLASK_APP=app.py"), T("flask run")>>
        ELSE IF ListIn(s_main_py, files)
        THEN <<T("export FLASK_APP=main.py"), T("flask run")>>
        ELSE <<T("python app.py")>>
    ELSE IF ListIn("Streamlit", ts) THEN
        IF ListIn(s_app_py, files) THEN <<T("streamlit run app.py")>>
        ELSE IF ListIn(s_main_py, files) THEN <<T("streamlit run main.py")>>
        ELSE <<T("streamlit run <main_file>.py")>>
    ELSE IF ListIn("Django", ts) THEN
        <<T("python manage.py migrate"), T("python manage.py runserver")>>
    ELSE IF ListIn("FastAPI", ts) THEN
        IF ListIn(s_main_py, files) THEN <<T("uvicorn main:app --reload")>>
        ELSE <<T("uvicorn app:app --reload")>>
    ELSE IF ListIn("Node.js", ts) THEN
        <<T("npm start")>>
            \o (IF ListIn("React", ts) THEN <<T("# Or: npm run dev")>> ELSE <<>>)
    ELSE IF ListIn("Python", ts) THEN
        IF ListIn(s_main_py, files) THEN <<T("python main.py")>>
        ELSE IF ListIn(s_app_py, files) THEN <<T("python app.py")>>
        ELSE <<T("python <main_file>.py")>>
    ELSE <<>>

\* generate_run_steps: run_commands, the if/elif cascade.
run_commands(ts, files) ==
    IF ListIn("Streamlit", ts) THEN
        IF ListIn(s_app_py, files) THEN <<T("streamlit run app.py")>>
        ELSE IF ListIn(s_main_py, files) THEN <<T("streamlit run main.py")>>
        ELSE <<T("streamlit run <main_file>.py")>>
    ELSE IF ListIn("Flask", ts) THEN
        IF ListIn(s_app_py, files)
        THEN <<T("export FLASK_APP=app.py"), T("flask run")>>
        ELSE IF ListIn(s_main_py, files)
        THEN <<T("export FLASK_APP=main.py"), T("flask run")>>
        ELSE <<T("python app.py")>>
    ELSE IF ListIn("Django", ts) THEN
        <<T("python manage.py migrate"), T("python manage.py runserver")>>
    ELSE IF ListIn("FastAPI", ts) THEN
        IF ListIn(s_main_py, files) THEN <<T("uvicorn main:app --reload")>>
        ELSE <<T("uvicorn app:app --reload")>>
    ELSE IF ListIn("Node.js", ts) THEN
        <<T("npm start")>>
            \o (IF ListIn("React", ts) THEN <<T("# Or: npm run dev")>> ELSE <<>>)
    ELSE IF ListIn("Python", ts) THEN
        IF ListIn(s_main_py, files) THEN <<T("python main.py")>>
        ELSE IF ListIn(s_app_py, files) THEN <<T("python app.py")>>
        ELSE <<T("python <main_file>.py")>>
    ELSE <<>>

RunStep(cmds) ==
    [title       |-> T("Run the Application"),
     description |-> T("Start the application"),
     commands    |-> cmds,
     notes       |-> <<T("Check the README file for specific run instructions"),
                       T("Application will typically run on localhost with a specific port")>>]

\* Mutant of env_files: the 'config' test forgotten.
env_files_DotEnvOnly(files) ==
    SelectSeq(files, LAMBDA f : StrIn(s_dot_env, f))

\* generate_run_steps: env_files = [f for f in files if '.env' in f or 'config' in f]
env_files(files) ==
    SelectSeq(files, LAMBDA f : StrIn(s_dot_env, f) \/ StrIn(s_config, f))

EnvStep ==
    [title       |-> T("Environment Configuration"),
     description |-> T("Set up environment variables"),
     commands    |-> <<T("# Copy example environment file (if exists)"),
                       T("cp .env.example .env"),
                       T("# Edit .env file with your configurations")>>,
     notes       |-> <<T("Check for .env.example or similar configuration files"),
                       T("Add necessary API keys, database URLs, etc.")>>]

\* Mutant of generate_run_steps: the environment step nested under the run
\* step, so it is emitted only when a run command was found.
generate_run_steps_EnvNeedsRun(ts, cs, o, r) ==
    LET files == FileNames(cs)
        cmds  == run_commands(ts, files)
    IN  IF Len(cmds) > 0
        THEN <<RunStep(cmds)>>
             \o (IF Len(env_files(files)) > 0 THEN <<EnvStep>> ELSE <<>>)
        ELSE <<>>

generate_run_steps(ts, cs, o, r) ==
    LET files == FileNames(cs)
        cmds  == run_commands(ts, files)
    IN  (IF Len(cmds) > 0 THEN <<RunStep(cmds)>> ELSE <<>>)
        \o (IF Len(env_files(files)) > 0 THEN <<EnvStep>> ELSE <<>>)

\* Mutant of generate_setup_steps: the Docker block before the Node.js block.
generate_setup_steps_DockerBeforeNode(o, r, ts, rd, cs) ==
    <<CloneStep(o, r)>>
    \o (IF ListIn("Python", ts) THEN generate_python_steps(o, r, cs) ELSE <<>>)
    \o (IF ListIn("Docker", ts) THEN generate_docker_steps ELSE <<>>)
    \o (IF ListIn("Node.js", ts) THEN generate_node_steps(o, r, cs) ELSE <<>>)
    \o (IF ListIn("Java", ts) THEN generate_java_steps(cs) ELSE <<>>)
    \o generate_run_steps(ts, cs, o, r)

generate_setup_steps(o, r, ts, rd, cs) ==
    <<CloneStep(o, r)>>
    \o (IF ListIn("Python", ts) THEN generate_python_steps(o, r, cs) ELSE <<>>)
    \o (IF ListIn("Node.js", ts) THEN generate_node_steps(o, r, cs) ELSE <<>>)
    \o (IF ListIn("Docker", ts) THEN generate_docker_steps ELSE <<>>)
    \o (IF ListIn("Java", ts) THEN generate_java_steps(cs) ELSE <<>>)
    \o generate_run_steps(ts, cs, o, r)

(***************************************************************************)
(* Inputs.  A root listing is what the contents API returns: entries with  *)
(* distinct names, in name order; here the sub-lists of a fixed listing    *)
(* with at most MaxFiles entries.                                          *)
(***************************************************************************)
\* Listing for the whole analysis (classifier, then synthesizer):
\* .streamlit/, Dockerfile, README.md, gen, go.mod, package.json, pom.xml, requirements.txt, streamlit_app.py
RepoEntries ==
  <<
    [name |-> <<".","s","t","r","e","a","m","l","i","t">>, type |-> "dir"],
    [name |-> <<"D","o","c","k","e","r","f","i","l","e">>, type |-> "file"],
    [name |-> <<"R","E","A","D","M","E",".","m","d">>, type |-> "file"],
    [name |-> <<"g","e","n">>, type |-> "file"],
    [name |-> <<"g","o",".","m","o","d">>, type |-> "file"],
    [name |-> <<"p","a","c","k","a","g","e",".","j","s","o","n">>, type |-> "file"],
    [name |-> <<"p","o","m",".","x","m","l">>, type |-> "file"],
    [name |-> <<"r","e","q","u","i","r","e","m","e","n","t","s",".","t","x","t">>, type |-> "file"],
    [name |-> <<"s","t","r","e","a","m","l","i","t","_","a","p","p",".","p","y">>, type |-> "file"]
  >>

\* Listing for the synthesizer called on any tag set:
\* .ENV.sample, Config.yml, Pipfile, app.py, build.gradle, config/, main.py, package-lock.json, pom.xml, pyproject.toml, requirements.txt, setup.py, yarn.lock
GeneratorEntries ==
  <<
    [name |-> <<".","E","N","V",".","s","a","m","p","l","e">>, type |-> "file"],
    [name |-> <<"C","o","n","f","i","g",".","y","m","l">>, type |-> "file"],
    [name |-> <<"P","i","p","f","i","l","e">>, type |-> "file"],
    [name |-> <<"a","p","p",".","p","y">>, type |-> "file"],
    [name |-> <<"b","u","i","l","d",".","g","r","a","d","l","e">>, type |-> "file"],
    [name |-> <<"c","o","n","f","i","g">>, type |-> "dir"],
    [name |-> <<"m","a","i","n",".","p","y">>, type |-> "file"],
    [name |-> <<"p","a","c","k","a","g","e","-","l","o","c","k",".","j","s","o","n">>, type |-> "file"],
    [name |-> <<"p","o","m",".","x","m","l">>, type |-> "file"],
    [name |-> <<"p","y","p","r","o","j","e","c","t",".","t","o","m","l">>, type |-> "file"],
    [name |-> <<"r","e","q","u","i","r","e","m","e","n","t","s",".","t","x","t">>, type |-> "file"],
    [name |-> <<"s","e","t","u","p",".","p","y">>, type |-> "file"],
    [name |-> <<"y","a","r","n",".","l","o","c","k">>, type |-> "file"]
  >>

\* The sub-lists of listing with at most MaxFiles entries, order kept.
Manifests(listing) ==
    {SelectSeq(listing, LAMBDA e : e \in S) :
        S \in {X \in SUBSET Elems(listing) : Cardinality(X) <= MaxFiles}}

\* repo_data['language'] values: none, a catalog tag, a tag outside the catalog.
Languages == {None, "Python", "JavaScript"}

\* The tags generate_setup_steps and generate_run_steps test for.
GatingTags ==
    <<"Python", "Node.js", "React", "Django", "Flask", "FastAPI",
      "Streamlit", "Docker", "Java">>

\* The tag lists given to generate_setup_steps when it is called on its own:
\* every subset of the tags it tests for.
TagLists ==
    {SelectSeq(GatingTags, LAMBDA t : t \in S) : S \in SUBSET Elems(GatingTags)}

(***************************************************************************)
(* The analysis of main(): detect the technologies, then generate the      *)
(* plan.                                                                   *)
(***************************************************************************)
Init ==
    /\ owner = "octocat"
    /\ repo = "hello-world"
    /\ contents \in Manifests(RepoEntries)
    /\ repo_data \in [language : Languages]
    /\ tech_stack = <<>>
    /\ steps = <<>>
    /\ pc = "start"

\* tech_stack = detect_technologies(contents, repo_data)
DetectTechnologies ==
    /\ pc = "start"
    /\ tech_stack' \in detect_technologies(contents, repo_data)
    /\ pc' = "detected"
    /\ UNCHANGED <<owner, repo, contents, repo_data, steps>>

\* steps = generate_setup_steps(owner, repo, tech_stack, repo_data, contents)
GenerateSetupSteps ==
    /\ pc = "detected"
    /\ steps' = generate_setup_steps(owner, repo, tech_stack, repo_data, contents)
    /\ pc' = "done"
    /\ UNCHANGED <<owner, repo, contents, repo_data, tech_stack>>

Next == DetectTechnologies \/ GenerateSetupSteps

Spec == Init /\ [][Next]_vars

(***************************************************************************)
(* generate_setup_steps as a function of its arguments: any tag list, any  *)
(* listing.                                                                *)
(***************************************************************************)
InitSynth ==
    /\ owner = "octocat"
    /\ repo = "hello-world"
    /\ contents \in Manifests(GeneratorEntries)
    /\ repo_data \in [language : {None}]
    /\ tech_stack \in TagLists
    /\ steps = <<>>
    /\ pc = "detected"

NextSynth == GenerateSetupSteps

SynthSpec == InitSynth /\ [][NextSynth]_vars

(***************************************************************************)
(* Vocabulary of the properties.                                           *)
(***************************************************************************)
Done == pc = "done"

HasTag(t) == t \in Elems(tech_stack)

\* The listing has a file (not a directory) whose lowercased name is lit.
HasFile(lit) ==
    \E i \in 1..Len(contents) :
        contents[i].type = "file" /\ lower(contents[i].name) = lit

\* The listing has a file whose lowercased name contains lit.
HasFileContaining(lit) ==
    \E i \in 1..Len(contents) :
        contents[i].type = "file" /\ StrIn(lit, lower(contents[i].name))

\* The positions of the plan whose step has this title.
Positions(title) == {i \in 1..Len(steps) : steps[i].title = T(title)}

CloneTitle  == "Clone the Repository"
VenvTitle   == "Set up Python Environment"
PipTitle    == "Install Dependencies"
NodeTitle   == "Install Node.js Dependencies"
DockerTitle == "Docker Setup (Alternative)"
MavenTitle  == "Java Maven Setup"
GradleTitle == "Java Gradle Setup"
RunTitle    == "Run the Application"
EnvTitle    == "Environment Configuration"

\* The file test of the Environment Configuration step.
HasEnvFile == HasFileContaining(s_dot_env) \/ HasFileContaining(s_config)

(***************************************************************************)
(* C1.  Whatever the tag list and the listing, the first step of the plan  *)
(* is the Clone step, and it has exactly two commands: the git clone       *)
(* command, then the change-directory command.                             *)
(***************************************************************************)
C1_CloneFirst ==
    Done =>
        /\ Len(steps) >= 1
        /\ steps[1].title = T(CloneTitle)
        /\ Len(steps[1].commands) = 2
        /\ steps[1].commands[1] =
               <<"git clone https://github.com/", owner, "/", repo, ".git">>
        /\ steps[1].commands[2] = <<"cd ", repo>>

\* A plan with generator steps after the Clone step.
C1_Witness ==
    /\ Done
    /\ HasTag("Python") /\ HasTag("Docker")
    /\ Len(steps) >= 4
    /\ steps[1].title = T(CloneTitle)

(***************************************************************************)
(* C2.  As claimed: with an empty tag list the plan is the Clone step      *)
(* alone, whatever the listing holds.                                      *)
(***************************************************************************)
C2_Original == (Done /\ tech_stack = <<>>) => Len(steps) = 1

(***************************************************************************)
(* C2, amended.  With an empty tag list the plan is the Clone step,        *)
(* followed by the Environment Configuration step exactly when the         *)
(* listing has a file whose name contains ".env" or "config"; no           *)
(* generator step and no run step.                                         *)
(***************************************************************************)
C2_EmptyTags ==
    (Done /\ tech_stack = <<>>) =>
        /\ steps[1].title = T(CloneTitle)
        /\ HasEnvFile => (Len(steps) = 2 /\ steps[2].title = T(EnvTitle))
        /\ ~HasEnvFile => Len(steps) = 1

\* No tags, and a listing with an environment file: two steps.
C2_Witness ==
    /\ Done
    /\ tech_stack = <<>>
    /\ HasEnvFile
    /\ Len(steps) = 2

(***************************************************************************)
(* The run step of a plan, and the branch of the resolver that wins.       *)
(***************************************************************************)
\* The resolver's branches, highest priority first.
Cascade == <<"Streamlit", "Flask", "Django", "FastAPI", "Node.js", "Python">>

SomeBranch == \E i \in 1..Len(Cascade) : HasTag(Cascade[i])

\* The highest-priority branch whose gating tag is in the tag list.
Winner ==
    Cascade[CHOOSE i \in 1..Len(Cascade) :
                /\ HasTag(Cascade[i])
                /\ \A j \in 1..(i - 1) : ~HasTag(Cascade[j])]

\* The commands of the plan's run step (<<>> when it has none).
RunCommands ==
    IF Positions(RunTitle) = {} THEN <<>>
    ELSE steps[CHOOSE i \in Positions(RunTitle) : TRUE].commands

\* Commands that name app.py, name main.py, or name no resolved entry point.
NamesAppPy ==
    {T("streamlit run app.py"), T("export FLASK_APP=app.py"), T("python app.py")}

NamesMainPy ==
    {T("streamlit run main.py"), T("export FLASK_APP=main.py"), T("python main.py")}

Placeholders ==
    {T("streamlit run <main_file>.py"), T("python <main_file>.py")}

\* The branches the claim is about.
EntryPointBranches == {"Streamlit", "Flask", "Node.js", "Python"}

(***************************************************************************)
(* C3.  As claimed: in the Streamlit, Flask, Node.js and Python branches   *)
(* the run command names app.py when the listing has app.py (also when it  *)
(* has main.py too), names main.py when it has main.py only, and is a      *)
(* placeholder for an unresolved entry point when it has neither.          *)
(***************************************************************************)
C3_Original ==
    (Done /\ SomeBranch /\ Winner \in EntryPointBranches) =>
        /\ HasFile(s_app_py) =>
               (Elems(RunCommands) \cap NamesAppPy # {}
                    /\ Elems(RunCommands) \cap NamesMainPy = {})
        /\ (~HasFile(s_app_py) /\ HasFile(s_main_py)) =>
               Elems(RunCommands) \cap NamesMainPy # {}
        /\ (~HasFile(s_app_py) /\ ~HasFile(s_main_py)) =>
               Elems(RunCommands) \cap Placeholders # {}

(***************************************************************************)
(* C3, amended.  Streamlit and Flask prefer app.py, then main.py; with     *)
(* neither, Streamlit emits the placeholder "streamlit run <main_file>.py" *)
(* and Flask emits the default "python app.py".  Python prefers main.py,   *)
(* then app.py, and with neither emits the placeholder                     *)
(* "python <main_file>.py".  Node.js does not look at the listing: its     *)
(* command is "npm start", followed by "# Or: npm run dev" when the React  *)
(* tag is present.                                                         *)
(***************************************************************************)
C3_EntryPoint ==
    (Done /\ SomeBranch) =>
        /\ Winner = "Streamlit" =>
               RunCommands =
                   IF HasFile(s_app_py) THEN <<T("streamlit run app.py")>>
                   ELSE IF HasFile(s_main_py) THEN <<T("streamlit run main.py")>>
                   ELSE <<T("streamlit run <main_file>.py")>>
        /\ Winner = "Flask" =>
               RunCommands =
                   IF HasFile(s_app_py)
                   THEN <<T("export FLASK_APP=app.py"), T("flask run")>>
                   ELSE IF HasFile(s_main_py)
                   THEN <<T("export FLASK_APP=main.py"), T("flask run")>>
                   ELSE <<T("python app.py")>>
        /\ Winner = "Python" =>
               RunCommands =
                   IF HasFile(s_main_py) THEN <<T("python main.py")>>
                   ELSE IF HasFile(s_app_py) THEN <<T("python app.py")>>
                   ELSE <<T("python <main_file>.py")>>
        /\ Winner = "Node.js" =>
               RunCommands =
                   IF HasTag("React")
                   THEN <<T("npm start"), T("# Or: npm run dev")>>
                   ELSE <<T("npm start")>>

\* The Python branch on a listing with both app.py and main.py.
C3_Witness ==
    /\ Done
    /\ SomeBranch
    /\ Winner = "Python"
    /\ HasFile(s_app_py) /\ HasFile(s_main_py)
    /\ RunCommands = <<T("python main.py")>>

(***************************************************************************)
(* C4.  The run step is chosen by the cascade Streamlit > Flask > Django > *)
(* FastAPI > Node.js > Python, first match wins: the plan has a run step   *)
(* exactly when one of the six tags is present, it has at most one, its    *)
(* commands are the commands of the highest-priority branch present (what  *)
(* the resolver gives for that tag alone on the same listing), and a tag   *)
(* of lower priority adds no command.  Tags Streamlit and Flask on a       *)
(* listing with app.py give "streamlit run app.py" alone.                  *)
(***************************************************************************)
\* The commands of branch b on this listing: the resolver's commands when b
\* is the only gating tag (React, which gates no branch, kept as given).
BranchCommands(b) ==
    run_commands(<<b>> \o (IF HasTag("React") THEN <<"React">> ELSE <<>>),
                 FileNames(contents))

\* The commands each branch can give, over all listings.
BranchFamily(b) ==
    CASE b = "Streamlit" ->
            {T("streamlit run app.py"), T("streamlit run main.py"),
             T("streamlit run <main_file>.py")}
      [] b = "Flask" ->
            {T("export FLASK_APP=app.py"), T("export FLASK_APP=main.py"),
             T("flask run"), T("python app.py")}
      [] b = "Django" ->
            {T("python manage.py migrate"), T("python manage.py runserver")}
      [] b = "FastAPI" ->
            {T("uvicorn main:app --reload"), T("uvicorn app:app --reload")}
      [] b = "Node.js" ->
            {T("npm start"), T("# Or: npm run dev")}
      [] b = "Python" ->
            {T("python main.py"), T("python app.py"), T("python <main_file>.py")}

C4_Cascade ==
    Done =>
        /\ Cardinality(Positions(RunTitle)) <= 1
        /\ (Positions(RunTitle) # {}) <=> SomeBranch
        /\ SomeBranch =>
               /\ RunCommands # <<>>
               /\ RunCommands = BranchCommands(Winner)
               /\ Elems(RunCommands) \subseteq BranchFamily(Winner)
               /\ \A i \in 1..Len(Cascade) :
                      (HasTag(Cascade[i]) /\ Cascade[i] # Winner) =>
                          Elems(RunCommands) \cap Elems(BranchCommands(Cascade[i])) = {}
        /\ (HasTag("Streamlit") /\ HasTag("Flask") /\ HasFile(s_app_py)) =>
               RunCommands = <<T("streamlit run app.py")>>

\* Streamlit and Flask both present on a listing with app.py.
C4_Witness ==
    /\ Done
    /\ HasTag("Streamlit") /\ HasTag("Flask") /\ HasTag("Python")
    /\ HasFile(s_app_py)
    /\ RunCommands = <<T("streamlit run app.py")>>

(***************************************************************************)
(* C6.  The plan has an Environment Configuration step if and only if the  *)
(* listing has a file whose name contains ".env" or "config", compared     *)
(* case-insensitively; this holds for every tag list, so the step does not *)
(* depend on the tags; and when present it is the last step of the plan.   *)
(***************************************************************************)
C6_EnvStep ==
    Done =>
        /\ (Positions(EnvTitle) # {}) <=> HasEnvFile
        /\ Positions(EnvTitle) \subseteq {Len(steps)}
        /\ \A i \in Positions(EnvTitle) : steps[i] = EnvStep

\* A file named with capitals (Config.yml or .ENV.sample) under a tag list
\* that fires generators and the resolver: the step is there, and last.
C6_Witness ==
    /\ Done
    /\ HasTag("Python") /\ HasTag("Docker")
    /\ HasEnvFile
    /\ ~HasFile(s_dot_env) /\ ~HasFile(s_config)
    /\ Len(steps) >= 6
    /\ steps[Len(steps)].title = T(EnvTitle)

(***************************************************************************)
(* C7.  Every plan is in the fixed order Clone, the two Python steps,      *)
(* the Node step, the Docker step, the Java step, the run step, the       *)
(* Environment Configuration step.  The Clone step is always there; the    *)
(* Python steps are there iff the Python tag is, the Node step iff         *)
(* Node.js is, the Docker step iff Docker is, a Java step iff Java is and   *)
(* a build file matches; at most one Java step, one run step and one       *)
(* Environment Configuration step.                                         *)
(* The generators do not exclude each other.                               *)
(***************************************************************************)
\* The place of a step in the fixed order, by its title.
Rank(title) ==
    CASE title = T(CloneTitle)  -> 0
      [] title = T(VenvTitle)   -> 1
      [] title = T(PipTitle)    -> 2
      [] title = T(NodeTitle)   -> 3
      [] title = T(DockerTitle) -> 4
      [] title = T(MavenTitle)  -> 5
      [] title = T(GradleTitle) -> 5
      [] title = T(RunTitle)    -> 6
      [] title = T(EnvTitle)    -> 7
      [] OTHER                  -> 99

C7_StepOrder ==
    Done =>
        /\ \A i \in 1..Len(steps) : Rank(steps[i].title) <= 7
        /\ \A i \in 1..(Len(steps) - 1) :
               Rank(steps[i].title) < Rank(steps[i + 1].title)
        /\ Positions(CloneTitle) = {1}
        /\ (Positions(VenvTitle) # {}) <=> HasTag("Python")
        /\ (Positions(PipTitle) # {}) <=> HasTag("Python")
        /\ (Positions(NodeTitle) # {}) <=> HasTag("Node.js")
        /\ (Positions(DockerTitle) # {}) <=> HasTag("Docker")
        /\ (Positions(MavenTitle) \cup Positions(GradleTitle) # {}) <=>
               (HasTag("Java") /\ (HasFile(s_pom_xml) \/ HasFileContaining(s_gradle)))

\* All four generators, the resolver and the environment rule in one plan.
C7_Witness ==
    /\ Done
    /\ HasTag("Python") /\ HasTag("Node.js") /\ HasTag("Docker") /\ HasTag("Java")
    /\ Len(steps) = 8
    /\ [i \in 1..8 |-> Rank(steps[i].title)] = <<0, 1, 2, 3, 4, 5, 6, 7>>

(***************************************************************************)
(* C8.  With the Java tag present the plan has at most one Java step,      *)
(* chosen by first match: a listing with pom.xml gives the Maven step      *)
(* only (also when a gradle file is there too); otherwise a listing with   *)
(* a file whose name contains "gradle" gives the Gradle step only;         *)
(* otherwise no Java step, although the Java tag is present.               *)
(***************************************************************************)
C8_JavaStep ==
    (Done /\ HasTag("Java")) =>
        LET maven  == {i \in 1..Len(steps) : steps[i] = MavenStep}
            gradle == {i \in 1..Len(steps) : steps[i] = GradleStep}
        IN  /\ maven = Positions(MavenTitle)
            /\ gradle = Positions(GradleTitle)
            /\ HasFile(s_pom_xml) =>
                   (Cardinality(maven) = 1 /\ gradle = {})
            /\ (~HasFile(s_pom_xml) /\ HasFileContaining(s_gradle)) =>
                   (maven = {} /\ Cardinality(gradle) = 1)
            /\ (~HasFile(s_pom_xml) /\ ~HasFileContaining(s_gradle)) =>
                   (maven = {} /\ gradle = {})

\* pom.xml and build.gradle together: the Maven step, no Gradle step.
C8_Witness ==
    /\ Done
    /\ HasTag("Java")
    /\ HasFile(s_pom_xml) /\ HasFileContaining(s_gradle)
    /\ Positions(MavenTitle) # {}
    /\ Positions(GradleTitle) = {}

(***************************************************************************)
(* C9.  With the Python tag present the Python generator gives exactly     *)
(* two steps, the virtual-environment step and then the install step,      *)
(* and the install step's commands are those of the first file present     *)
(* among requirements.txt ("pip install -r requirements.txt" alone),       *)
(* setup.py (editable install), pyproject.toml (editable install),         *)
(* Pipfile (the two pipenv commands); with none of them, one placeholder   *)
(* comment.                                                                *)
(***************************************************************************)
\* The dependency files in priority order, each with its commands.
InstallTable ==
    << [file |-> s_requirements_txt,
        commands |-> <<T("pip install -r requirements.txt")>>],
       [file |-> s_setup_py,       commands |-> <<T("pip install -e .")>>],
       [file |-> s_pyproject_toml, commands |-> <<T("pip install -e .")>>],
       [file |-> s_pipfile,
        commands |-> <<T("pip install pipenv"), T("pipenv install")>>] >>

ExpectedInstall ==
    IF \E i \in 1..Len(InstallTable) : HasFile(InstallTable[i].file)
    THEN InstallTable[CHOOSE i \in 1..Len(InstallTable) :
                          /\ HasFile(InstallTable[i].file)
                          /\ \A j \in 1..(i - 1) : ~HasFile(InstallTable[j].file)
                     ].commands
    ELSE <<T("# Check for any Python dependencies and install manually")>>

C9_PythonSteps ==
    (Done /\ HasTag("Python")) =>
        /\ Positions(VenvTitle) = {2}
        /\ Positions(PipTitle) = {3}
        /\ steps[2] = PythonEnvStep
        /\ steps[3].commands = ExpectedInstall

\* A listing holding two of the dependency files: the first one decides.
C9_Witness ==
    /\ Done
    /\ HasTag("Python")
    /\ HasFile(s_requirements_txt) /\ HasFile(s_setup_py)
    /\ steps[3].commands = <<T("pip install -r requirements.txt")>>

(***************************************************************************)
(* The classifier's result, stated from the listing and the metadata.      *)
(***************************************************************************)
Detected == pc \in {"detected", "done"}

\* The lowercase concatenation of the names of the listing's files, one
\* space between two names.
LowerConcat ==
    LET fileEntries == SelectSeq(contents, LAMBDA e : e.type = "file")
    IN  lower(join(s_space, [i \in 1..Len(fileEntries) |-> fileEntries[i].name]))

\* The catalog tags one of whose patterns occurs in LowerConcat.
MatchedCatalogTags ==
    LET concat == LowerConcat
    IN  {tech_patterns[i].tech : i \in
            {j \in 1..Len(tech_patterns) :
                \E k \in 1..Len(tech_patterns[j].patterns) :
                    StrIn(tech_patterns[j].patterns[k], concat)}}

LanguageTags == IF repo_data.language = None THEN {} ELSE {repo_data.language}

\* The language tag first (if present), then the matched catalog tags in
\* catalog-declaration order, no tag twice.
CatalogOrder ==
    LET matched == MatchedCatalogTags
    IN  (IF repo_data.language = None THEN <<>> ELSE <<repo_data.language>>)
        \o SelectSeq([i \in 1..Len(tech_patterns) |-> tech_patterns[i].tech],
                     LAMBDA t : t \in matched /\ t \notin LanguageTags)

(***************************************************************************)
(* C5.  As claimed: the classifier's result is fixed in content and in     *)
(* order by its inputs, the order being the language tag first (if         *)
(* present), then the matched catalog tags in catalog-declaration order;   *)
(* so any call on these inputs returns this one sequence.                  *)
(***************************************************************************)
C5_Original == Detected => tech_stack = CatalogOrder

(***************************************************************************)
(* C5, amended.  The classifier's result is fixed in content by its        *)
(* inputs, not in order: it is some arrangement of the language tag (if    *)
(* present) and the matched catalog tags, each once; the order is the      *)
(* iteration order of a set and can differ from one run to another.        *)
(***************************************************************************)
C5_SameTagsAnyOrder ==
    Detected =>
        LET order == CatalogOrder
        IN  /\ Len(tech_stack) = Len(order)
            /\ \A i \in 1..Len(order) :
                   Cardinality({j \in 1..Len(tech_stack) :
                                   tech_stack[j] = order[i]}) = 1

\* A result that holds the expected tags in another order than the catalog's.
C5_Witness ==
    /\ Detected
    /\ Len(tech_stack) >= 3
    /\ LET order == CatalogOrder
       IN  tech_stack # order /\ Elems(tech_stack) = Elems(order)

(***************************************************************************)
(* C10.  The tags returned by the classifier are exactly the metadata      *)
(* language (if present) and every catalog tag one of whose patterns       *)
(* occurs as a substring of the lowercase concatenation of the listing's   *)
(* file names; no other tag is returned and no tag is returned twice,      *)
(* also when the language equals a matched catalog tag.                    *)
(***************************************************************************)
C10_ExactTags ==
    Detected =>
        /\ Elems(tech_stack) = LanguageTags \cup MatchedCatalogTags
        /\ \A i, j \in 1..Len(tech_stack) :
               tech_stack[i] = tech_stack[j] => i = j

\* Language Python with requirements.txt (the tag once), and a pattern
\* matched inside a longer file name (streamlit_app.py: Streamlit, Flask).
C10_Witness ==
    /\ Detected
    /\ repo_data.language = "Python"
    /\ HasFile(s_requirements_txt)
    /\ "Python" \in MatchedCatalogTags
    /\ Elems(tech_stack) = {"Python", "Streamlit", "Flask"}
    /\ Len(tech_stack) = 3

====
